---- MODULE Spec2Model ----
(***************************************************************************)
(* The ILI9486 display driver (src/src/lib.rs, src/src/graphics.rs) as a   *)
(* state machine.  The device struct's fields are variables; every public  *)
(* operation is one action that runs the whole method, including every     *)
(* call it makes on the transport, the reset pin and the delay source.     *)
(* The calls an operation makes are recorded in `log`, in order; `call`    *)
(* holds the operation and its arguments, `result` what it returned.       *)
(***************************************************************************)
EXTENDS Integers, Sequences, FiniteSets, TLC

\* ------------------------------------------------------------------ bounds
\* SIZE::WIDTH and SIZE::HEIGHT of the DisplaySize implementation in use.
\* DisplaySize is a public trait: a caller may implement it for any panel.
PanelWidth == 2
PanelHeight == 3
\* fixed_top_lines and fixed_bottom_lines are drawn from 0..MaxFixed
MaxFixed == 2
\* scroll_vertically calls made on one Scroller
MaxScrolls == 2
\* length of the data a caller passes to draw_raw_iter
MaxRawLen == 2

\* ------------------------------------------------------- machine integers
\* u16 holds 0 .. U16-1
U16 == 65536
\* u8 holds 0 .. U8-1
U8 == 256

\* `v as u16` for a non-negative v
AsU16(v) == v % U16
\* `v as u8` for a non-negative v
AsU8(v) == v % U8
\* `v >> 8` on a u16
Shr8(v) == v \div 256
\* `v & 0xff`
And255(v) == v % 256
\* `v as i32` for a usize v: value-preserving below 2^31, and every usize the
\* model holds (a panel dimension) is below 2^31
AsI32(v) == v

\* a + b on u16: the wrapped value, and whether it overflowed
Add16(a, b) == [v |-> (a + b) % U16, ovf |-> a + b >= U16]
\* a - b on u16: the wrapped value, and whether it underflowed
Sub16(a, b) == [v |-> (a - b + U16) % U16, ovf |-> a < b]

\* bit k of byte b
Bit(b, k) == (b \div (2 ^ k)) % 2 = 1
\* a | b on u8
BitOr(a, b) ==
  LET bit(k) == IF Bit(a, k) \/ Bit(b, k) THEN 2 ^ k ELSE 0
  IN bit(0) + bit(1) + bit(2) + bit(3) + bit(4) + bit(5) + bit(6) + bit(7)

\* --------------------------------------------------------------- Command
InterfaceModeControl == 176
SleepOut == 17
PixelFormatSet == 58
DisplayInversionOff == 32
PowerControl1 == 192
PowerControl2 == 193
PowerControl3 == 194
PowerControl4 == 195
MemoryAccessControl == 54
DigitalGammaControl1 == 226
DigitalGammaControl2 == 227
DisplayFunctionControl == 182
DisplayOn == 41
IdleModeOff == 56
NormalDisplayMode == 19
ColumnAddressSet == 42
PageAddressSet == 43
MemoryWrite == 44
VerticalScrollDefine == 51
VerticalScrollAddr == 55

\* ----------------------------------------------------------- DisplayMode
Orientations == {"Portrait", "Landscape"}
Flips == {"No", "FlipHorizontal", "FlipVertical", "Rotate180"}
DisplayModes == [orientation : Orientations, flip : Flips, inverted_rgb : BOOLEAN]
\* DisplayMode::default()
DefaultMode == [orientation |-> "Portrait", flip |-> "No", inverted_rgb |-> FALSE]

BGR_PIXEL_ORDER == 8
ROW_COLUMN_EXCHANGE == 32
COLUMN_ORDER_SWAP == 64
ROW_ORDER_SWAP == 128

\* From<DisplayMode> with FlipVertical given FlipHorizontal's test of the
\* orientation: both flips then set the same bit
ModeCode_same_axis(mode) ==
  LET c1 == IF mode.orientation = "Landscape" THEN ROW_COLUMN_EXCHANGE ELSE 0
      c2 == IF mode.inverted_rgb THEN BitOr(c1, BGR_PIXEL_ORDER) ELSE c1
  IN CASE mode.flip = "No" -> c2
       [] mode.flip \in {"FlipHorizontal", "FlipVertical"} ->
            BitOr(c2, IF mode.orientation = "Portrait" THEN COLUMN_ORDER_SWAP ELSE ROW_ORDER_SWAP)
       [] mode.flip = "Rotate180" ->
            BitOr(c2, BitOr(COLUMN_ORDER_SWAP, ROW_ORDER_SWAP))

\* impl From<DisplayMode> for u8
ModeCode(mode) ==
  LET c0 == 0
      c1 == IF mode.orientation = "Landscape" THEN BitOr(c0, ROW_COLUMN_EXCHANGE) ELSE c0
      c2 == IF mode.inverted_rgb THEN BitOr(c1, BGR_PIXEL_ORDER) ELSE c1
  IN CASE mode.flip = "No" -> c2
       [] mode.flip = "FlipHorizontal" ->
            BitOr(c2, IF mode.orientation = "Portrait" THEN COLUMN_ORDER_SWAP ELSE ROW_ORDER_SWAP)
       [] mode.flip = "FlipVertical" ->
            BitOr(c2, IF mode.orientation = "Landscape" THEN COLUMN_ORDER_SWAP ELSE ROW_ORDER_SWAP)
       [] mode.flip = "Rotate180" ->
            BitOr(c2, BitOr(COLUMN_ORDER_SWAP, ROW_ORDER_SWAP))

\* ------------------------------------------- transport, reset pin, delay
\* The collaborators are external: what the model keeps of them is the list of
\* calls made (io.log) and which call fails.  io.fuse = k > 0: the k-th
\* transport call from now returns Err; 0: none does.  io.pinfuse likewise for
\* the reset pin.
NewIo(fuse, pinfuse) == [log |-> <<>>, fuse |-> fuse, pinfuse |-> pinfuse]

Entry(kind, fmt, vals) == [kind |-> kind, fmt |-> fmt, vals |-> vals]

\* one call on the transport: it is made (logged), and fails if the fuse is at 1
send(io, e) ==
  [io |-> [io EXCEPT !.log = Append(@, e),
                     !.fuse = IF @ = 0 THEN 0 ELSE @ - 1],
   ok |-> io.fuse # 1]

\* interface.send_commands(U8Iter(once(cmd)))
send_commands(io, cmd) == send(io, Entry("cmd", "U8", <<cmd>>))
\* interface.send_data(U8Iter(args)) and interface.send_data(U16BEIter(data))
send_data(io, fmt, vals) == send(io, Entry("data", fmt, vals))

\* reset.set_low() / reset.set_high()
set_pin(io, level) ==
  [io |-> [io EXCEPT !.log = Append(@, Entry("reset", level, <<>>)),
                     !.pinfuse = IF @ = 0 THEN 0 ELSE @ - 1],
   ok |-> io.pinfuse # 1]

\* delay.delay_us(us): infallible
delay_us(io, us) == [io EXCEPT !.log = Append(@, Entry("delay", "us", <<us>>))]

\* ILI9486::command
command(io, cmd, args) ==
  LET a == send_commands(io, cmd)
  IN IF ~a.ok THEN a ELSE send_data(a.io, "U8", args)

\* reset with the results of the pin calls discarded instead of mapped to
\* RSError and returned
reset_ignores_pin_errors(io) ==
  LET a == set_pin(io, "low")
      b == set_pin(delay_us(a.io, 150), "high")
  IN [io |-> delay_us(b.io, 150), res |-> "Ok"]

\* ILI9486::reset: Ok, or RSError when a pin call fails
reset(io) ==
  LET a == set_pin(io, "low")
  IN IF ~a.ok THEN [io |-> a.io, res |-> "RSError"]
     ELSE LET b == set_pin(delay_us(a.io, 150), "high")
          IN IF ~b.ok THEN [io |-> b.io, res |-> "RSError"]
             ELSE [io |-> delay_us(b.io, 150), res |-> "Ok"]

\* set_display_mode without the test of the orientation: it exchanges width
\* and height on every call
set_display_mode_always_swaps(dev, io, mode) ==
  LET d == [dev EXCEPT !.width = dev.height, !.height = dev.width, !.mode = mode]
      r == command(io, MemoryAccessControl, <<ModeCode(mode)>>)
  IN [dev |-> d, io |-> r.io, res |-> IF r.ok THEN "Ok" ELSE "BusError"]

\* set_display_mode sending the command ahead of the assignment to self.mode,
\* so that the byte is taken from the mode stored so far
set_display_mode_sends_stored_mode(dev, io, mode) ==
  LET swapped == IF dev.mode.orientation # mode.orientation
                 THEN [dev EXCEPT !.width = dev.height, !.height = dev.width]
                 ELSE dev
      d == [swapped EXCEPT !.mode = mode]
      r == command(io, MemoryAccessControl, <<ModeCode(dev.mode)>>)
  IN [dev |-> d, io |-> r.io, res |-> IF r.ok THEN "Ok" ELSE "BusError"]

\* set_display_mode keeping the stored width, height and mode when the
\* transport fails
set_display_mode_rolls_back(dev, io, mode) ==
  LET swapped == IF dev.mode.orientation # mode.orientation
                 THEN [dev EXCEPT !.width = dev.height, !.height = dev.width]
                 ELSE dev
      d == [swapped EXCEPT !.mode = mode]
      r == command(io, MemoryAccessControl, <<ModeCode(mode)>>)
  IN [dev |-> IF r.ok THEN d ELSE dev, io |-> r.io,
      res |-> IF r.ok THEN "Ok" ELSE "BusError"]

\* ILI9486::set_display_mode on the device dev = [width, height, mode]
set_display_mode(dev, io, mode) ==
  LET swapped == IF dev.mode.orientation # mode.orientation
                 THEN [dev EXCEPT !.width = dev.height, !.height = dev.width]
                 ELSE dev
      d == [swapped EXCEPT !.mode = mode]
      r == command(io, MemoryAccessControl, <<ModeCode(mode)>>)
  IN [dev |-> d, io |-> r.io, res |-> IF r.ok THEN "Ok" ELSE "BusError"]

\* One line of ILI9486::new: a command with its arguments, ended by `?`
\* (unwrap = FALSE) or by `.unwrap()` (unwrap = TRUE), or a delay.
Cmd(cmd, args, unwrap) == [kind |-> "cmd", cmd |-> cmd, args |-> args, unwrap |-> unwrap]
Delay(us) == [kind |-> "delay", cmd |-> 0, args |-> <<us>>, unwrap |-> FALSE]

\* the commands before set_display_mode with the inversion-off command ahead
\* of the pixel format
InitBefore_inversion_first ==
  << Cmd(InterfaceModeControl, <<0>>, TRUE),
     Cmd(SleepOut, <<>>, TRUE),
     Delay(120),
     Cmd(DisplayInversionOff, <<>>, FALSE),
     Cmd(PixelFormatSet, <<85>>, FALSE),
     Cmd(PowerControl1, <<9, 9>>, FALSE),
     Cmd(PowerControl2, <<65, 0>>, FALSE),
     Cmd(PowerControl3, <<51>>, FALSE),
     Cmd(PowerControl4, <<0, 54>>, FALSE) >>

\* new, lines 164-174: the commands before set_display_mode
InitBefore ==
  << Cmd(InterfaceModeControl, <<0>>, TRUE),
     Cmd(SleepOut, <<>>, TRUE),
     Delay(120),
     Cmd(PixelFormatSet, <<85>>, FALSE),
     Cmd(DisplayInversionOff, <<>>, FALSE),
     Cmd(PowerControl1, <<9, 9>>, FALSE),
     Cmd(PowerControl2, <<65, 0>>, FALSE),
     Cmd(PowerControl3, <<51>>, FALSE),
     Cmd(PowerControl4, <<0, 54>>, FALSE) >>

\* new, lines 177-186: the commands after set_display_mode
InitAfter ==
  << Cmd(DigitalGammaControl1, <<0, 44, 44, 11, 12, 4, 76, 100, 54, 3, 14, 1, 16, 1, 0>>, FALSE),
     Cmd(DigitalGammaControl2, <<15, 55, 55, 12, 15, 5, 80, 50, 54, 4, 11, 0, 25, 20, 15>>, FALSE),
     Cmd(DisplayFunctionControl, <<0, 2, 59>>, FALSE),
     Cmd(SleepOut, <<>>, FALSE),
     Delay(120),
     Cmd(DisplayOn, <<>>, FALSE),
     Cmd(IdleModeOff, <<>>, FALSE),
     Cmd(NormalDisplayMode, <<>>, FALSE) >>

\* The lines of new run in order: `?` returns the transport's error and
\* `.unwrap()` panics on it; either way nothing after the failing line runs.
RECURSIVE run_lines(_, _)
run_lines(io, lines) ==
  IF lines = <<>> THEN [io |-> io, res |-> "Ok"]
  ELSE LET l == Head(lines)
       IN IF l.kind = "delay" THEN run_lines(delay_us(io, l.args[1]), Tail(lines))
          ELSE LET r == command(io, l.cmd, l.args)
               IN IF r.ok THEN run_lines(r.io, Tail(lines))
                  ELSE [io |-> r.io, res |-> IF l.unwrap THEN "Panic" ELSE "BusError"]

\* ILI9486::new
new(io, display_mode) ==
  LET dev0 == [width |-> PanelWidth, height |-> PanelHeight, mode |-> DefaultMode]
      a == reset(io)
  IN IF a.res # "Ok" THEN [dev |-> dev0, io |-> a.io, res |-> a.res]
     ELSE LET b == run_lines(a.io, InitBefore)
          IN IF b.res # "Ok" THEN [dev |-> dev0, io |-> b.io, res |-> b.res]
             ELSE LET c == set_display_mode(dev0, b.io, display_mode)
                  IN IF c.res # "Ok" THEN c
                     ELSE LET d == run_lines(c.io, InitAfter)
                          IN [dev |-> c.dev, io |-> d.io, res |-> d.res]

\* ILI9486::write_iter
write_iter(io, data) ==
  LET a == command(io, MemoryWrite, <<>>)
  IN IF ~a.ok THEN a ELSE send_data(a.io, "U16BE", data)

\* set_window with the column arguments repeated in the page-address-set
set_window_columns_twice(io, x0, y0, x1, y1) ==
  LET a == command(io, ColumnAddressSet,
                   <<AsU8(Shr8(x0)), AsU8(And255(x0)), AsU8(Shr8(x1)), AsU8(And255(x1))>>)
  IN IF ~a.ok THEN a
     ELSE command(a.io, PageAddressSet,
                  <<AsU8(Shr8(x0)), AsU8(And255(x0)), AsU8(Shr8(x1)), AsU8(And255(x1))>>)

\* set_window with the low byte of each coordinate ahead of its high byte
set_window_low_byte_first(io, x0, y0, x1, y1) ==
  LET a == command(io, ColumnAddressSet,
                   <<AsU8(And255(x0)), AsU8(Shr8(x0)), AsU8(And255(x1)), AsU8(Shr8(x1))>>)
  IN IF ~a.ok THEN a
     ELSE command(a.io, PageAddressSet,
                  <<AsU8(And255(y0)), AsU8(Shr8(y0)), AsU8(And255(y1)), AsU8(Shr8(y1))>>)

\* ILI9486::set_window
set_window(io, x0, y0, x1, y1) ==
  LET a == command(io, ColumnAddressSet,
                   <<AsU8(Shr8(x0)), AsU8(And255(x0)), AsU8(Shr8(x1)), AsU8(And255(x1))>>)
  IN IF ~a.ok THEN a
     ELSE command(a.io, PageAddressSet,
                  <<AsU8(Shr8(y0)), AsU8(And255(y0)), AsU8(Shr8(y1)), AsU8(And255(y1))>>)

\* draw_raw_iter with the result of set_window discarded instead of returned
\* by `?`
draw_raw_iter_ignores_window_error(io, x0, y0, x1, y1, data) ==
  LET a == set_window(io, x0, y0, x1, y1)
  IN write_iter(a.io, data)

\* ILI9486::draw_raw_iter
draw_raw_iter(io, x0, y0, x1, y1, data) ==
  LET a == set_window(io, x0, y0, x1, y1)
  IN IF ~a.ok THEN a ELSE write_iter(a.io, data)

\* ILI9486::draw_raw_slice
draw_raw_slice(io, x0, y0, x1, y1, data) == draw_raw_iter(io, x0, y0, x1, y1, data)

\* --------------------------------------------------------------- Scroller
\* Scroller::new
Scroller_new(fixed_top_lines, fixed_bottom_lines, h) ==
  [present |-> TRUE, top_offset |-> fixed_top_lines, fixed_top_lines |-> fixed_top_lines,
   fixed_bottom_lines |-> fixed_bottom_lines, height |-> h]

\* configure_vertical_scroll taking the stored height in both orientations
configure_vertical_scroll_logical_height(dev, io, fixed_top_lines, fixed_bottom_lines, checks) ==
  LET h == AsU16(dev.height)
      s1 == Sub16(h, fixed_top_lines)
      s2 == Sub16(s1.v, fixed_bottom_lines)
      scroll_lines == s2.v
      r == command(io, VerticalScrollDefine,
                   <<AsU8(Shr8(fixed_top_lines)), AsU8(And255(fixed_top_lines)),
                     AsU8(Shr8(scroll_lines)), AsU8(And255(scroll_lines)),
                     AsU8(Shr8(fixed_bottom_lines)), AsU8(And255(fixed_bottom_lines))>>)
  IN IF checks /\ (s1.ovf \/ s2.ovf)
     THEN [io |-> io, res |-> "Panic", scroller |-> [present |-> FALSE]]
     ELSE IF ~r.ok THEN [io |-> r.io, res |-> "BusError", scroller |-> [present |-> FALSE]]
     ELSE [io |-> r.io, res |-> "Ok",
           scroller |-> Scroller_new(fixed_top_lines, fixed_bottom_lines, h)]

\* ILI9486::configure_vertical_scroll.  A u16 subtraction that underflows
\* panics when the build checks overflow and wraps when it does not.
configure_vertical_scroll(dev, io, fixed_top_lines, fixed_bottom_lines, checks) ==
  LET h == AsU16(IF dev.mode.orientation = "Landscape" THEN dev.width ELSE dev.height)
      s1 == Sub16(h, fixed_top_lines)
      s2 == Sub16(s1.v, fixed_bottom_lines)
      scroll_lines == s2.v
      r == command(io, VerticalScrollDefine,
                   <<AsU8(Shr8(fixed_top_lines)), AsU8(And255(fixed_top_lines)),
                     AsU8(Shr8(scroll_lines)), AsU8(And255(scroll_lines)),
                     AsU8(Shr8(fixed_bottom_lines)), AsU8(And255(fixed_bottom_lines))>>)
  IN IF checks /\ (s1.ovf \/ s2.ovf)
     THEN [io |-> io, res |-> "Panic", scroller |-> [present |-> FALSE]]
     ELSE IF ~r.ok THEN [io |-> r.io, res |-> "BusError", scroller |-> [present |-> FALSE]]
     ELSE [io |-> r.io, res |-> "Ok",
           scroller |-> Scroller_new(fixed_top_lines, fixed_bottom_lines, h)]

\* ILI9486::scroll_vertically on the Scroller sc.  Each u16 operation that
\* overflows panics when the build checks overflow and wraps when it does not;
\* a panic leaves sc as the assignments before it made it.
scroll_vertically(sc, io, num_lines, checks) ==
  LET a == Add16(sc.top_offset, num_lines)
      sc1 == [sc EXCEPT !.top_offset = a.v]
      lim == Sub16(sc.height, sc.fixed_bottom_lines)
      b == Add16(sc1.top_offset, sc.fixed_bottom_lines)
      c == Sub16(b.v, sc.height)
      d == Add16(sc.fixed_top_lines, c.v)
      wraps == sc1.top_offset > lim.v
      sc2 == IF wraps THEN [sc1 EXCEPT !.top_offset = d.v] ELSE sc1
      r == command(io, VerticalScrollAddr,
                   <<AsU8(Shr8(sc2.top_offset)), AsU8(And255(sc2.top_offset))>>)
  IN IF checks /\ a.ovf THEN [sc |-> sc, io |-> io, res |-> "Panic"]
     ELSE IF checks /\ (lim.ovf \/ (wraps /\ (b.ovf \/ c.ovf \/ d.ovf)))
     THEN [sc |-> sc1, io |-> io, res |-> "Panic"]
     ELSE [sc |-> sc2, io |-> r.io, res |-> IF r.ok THEN "Ok" ELSE "BusError"]

\* ------------------------------------------------- DrawTarget (graphics.rs)
\* An Rgb565 colour is [r : 0..31, g : 0..63, b : 0..31];
\* RawU16::from(color).into_inner() packs it.
RawU16(color) == color.r * 2048 + color.g * 32 + color.b

\* draw_pixel with > for >= in the test of the bounds
draw_pixel_off_by_one(dev, io, pos, color) ==
  IF pos.x < 0 \/ pos.y < 0 \/ pos.x > AsI32(dev.width) \/ pos.y > AsI32(dev.height)
  THEN [io |-> io, ok |-> TRUE]
  ELSE draw_raw_slice(io, AsU16(pos.x), AsU16(pos.y), AsU16(pos.x), AsU16(pos.y),
                      <<RawU16(color)>>)

\* DrawTarget::draw_pixel
draw_pixel(dev, io, pos, color) ==
  IF pos.x < 0 \/ pos.y < 0 \/ pos.x >= AsI32(dev.width) \/ pos.y >= AsI32(dev.height)
  THEN [io |-> io, ok |-> TRUE]
  ELSE draw_raw_slice(io, AsU16(pos.x), AsU16(pos.y), AsU16(pos.x), AsU16(pos.y),
                      <<RawU16(color)>>)

\* clamp without its upper bound
clamp_no_upper(v, max) == IF v < 0 THEN 0 ELSE AsU16(v)

\* clamp without its lower bound: a negative coordinate is cast to u16
clamp_no_lower(v, max) == IF v > max THEN AsU16(max) ELSE AsU16(v)

\* fn clamp inside draw_rectangle
clamp(v, max) == IF v < 0 THEN 0 ELSE IF v > max THEN AsU16(max) ELSE AsU16(v)

\* A PrimitiveStyle is [fill_color, stroke_color, stroke_width], a colour being
\* [some |-> FALSE] or [some |-> TRUE, c |-> an Rgb565].
NoColor == [some |-> FALSE]
Some(c) == [some |-> TRUE, c |-> c]

\* item.into_iter(): the pixels the styled rectangle's iterator yields, in
\* order.  It walks p from top_left, x first; after p.x passes bottom_right.x
\* it starts the next row at top_left.x; it ends when p.y passes
\* bottom_right.y.  A point within stroke_width of an edge takes the stroke
\* colour when there is one; any other point takes the fill colour when there
\* is one; a point with no colour is skipped.
styled_pixels(tl, br, style) ==
  LET cols == IF br.x >= tl.x THEN br.x - tl.x + 1 ELSE 1
      rows == IF br.y >= tl.y THEN br.y - tl.y + 1 ELSE 0
      bw == style.stroke_width
      point(i) == [x |-> tl.x + ((i - 1) % cols), y |-> tl.y + ((i - 1) \div cols)]
      border(p) == \/ (p.y >= tl.y /\ p.y < tl.y + bw)
                   \/ (p.y <= br.y /\ p.y > br.y - bw)
                   \/ (p.x >= tl.x /\ p.x < tl.x + bw)
                   \/ (p.x <= br.x /\ p.x > br.x - bw)
      colour(p) == IF border(p) /\ style.stroke_color.some THEN style.stroke_color
                   ELSE style.fill_color
      all == [i \in 1..(rows * cols) |-> [p |-> point(i), c |-> colour(point(i))]]
  IN IF ~style.stroke_color.some /\ ~style.fill_color.some THEN <<>>
     ELSE SelectSeq(all, LAMBDA e : e.c.some)

\* draw_rectangle with the early return left out
draw_rectangle_no_early_out(dev, io, tl, br, style) ==
  LET w == AsI32(dev.width)
      h == AsI32(dev.height)
      inside(e) == e.p.x >= 0 /\ e.p.y >= 0 /\ e.p.x < w /\ e.p.y < h
      kept == SelectSeq(styled_pixels(tl, br, style), inside)
      data == [i \in 1..Len(kept) |-> RawU16(kept[i].c.c)]
  IN draw_raw_iter(io, clamp(tl.x, w - 1), clamp(tl.y, h - 1),
                   clamp(br.x, w - 1), clamp(br.y, h - 1), data)

\* draw_rectangle without the filter on the points of the iterator
draw_rectangle_no_filter(dev, io, tl, br, style) ==
  LET w == AsI32(dev.width)
      h == AsI32(dev.height)
      all == styled_pixels(tl, br, style)
      data == [i \in 1..Len(all) |-> RawU16(all[i].c.c)]
  IN IF tl.x >= w \/ tl.y >= h THEN [io |-> io, ok |-> TRUE]
     ELSE draw_raw_iter(io, clamp(tl.x, w - 1), clamp(tl.y, h - 1),
                        clamp(br.x, w - 1), clamp(br.y, h - 1), data)

\* DrawTarget::draw_rectangle
draw_rectangle(dev, io, tl, br, style) ==
  LET w == AsI32(dev.width)
      h == AsI32(dev.height)
      inside(e) == e.p.x >= 0 /\ e.p.y >= 0 /\ e.p.x < w /\ e.p.y < h
      kept == SelectSeq(styled_pixels(tl, br, style), inside)
      data == [i \in 1..Len(kept) |-> RawU16(kept[i].c.c)]
  IN IF tl.x >= w \/ tl.y >= h THEN [io |-> io, ok |-> TRUE]
     ELSE draw_raw_iter(io, clamp(tl.x, w - 1), clamp(tl.y, h - 1),
                        clamp(br.x, w - 1), clamp(br.y, h - 1), data)

\* clear streaming width * width values
clear_square(dev, io, color) ==
  LET raw == RawU16(color)
  IN draw_raw_iter(io, 0, 0, AsU16(dev.width - 1), AsU16(dev.height - 1),
                   [i \in 1..(dev.width * dev.width) |-> raw])

\* DrawTarget::clear
clear(dev, io, color) ==
  LET raw == RawU16(color)
  IN draw_raw_iter(io, 0, 0, AsU16(dev.width - 1), AsU16(dev.height - 1),
                   [i \in 1..(dev.width * dev.height) |-> raw])

\* ------------------------------------------------------------------ state
VARIABLES
  pc,               \* "start": before new; "idle": the caller holds the device;
                    \* "returned": an operation has returned; "failed": new
                    \* returned Err (no device); "panicked": the program stopped
  overflow_checks,  \* the build's overflow-checks setting (on in debug builds)
  width, height, mode,   \* the fields of ILI9486
  scroller,         \* the Scroller the caller holds, or NoScroller
  scrolls,          \* the scroll_vertically calls made on that Scroller
  call,             \* the operation last called, with its arguments
  log,              \* the calls that operation made, in order
  result            \* what it returned: "Ok", "BusError", "RSError", "Panic"

vars == <<pc, overflow_checks, width, height, mode, scroller, scrolls, call, log, result>>

NoScroller == [present |-> FALSE]
NoCall == [op |-> "none"]

\* ------------------------------------------------------------- the inputs
\* the transport calls new makes when none fails: two for each command
NewSends == 2 * (Cardinality({i \in DOMAIN InitBefore : InitBefore[i].kind = "cmd"})
                 + 1
                 + Cardinality({i \in DOMAIN InitAfter : InitAfter[i].kind = "cmd"}))
\* the transport calls draw_raw_iter makes when none fails: two for each of
\* its three commands, and the pixel data
DrawSends == 2 * 3 + 1
\* modes that differ in orientation only
PlainModes == {m \in DisplayModes : m.flip = "No" /\ ~m.inverted_rgb}

Red == [r |-> 31, g |-> 0, b |-> 0]
Teal == [r |-> 0, g |-> 63, b |-> 31]
Colors == {Red, Teal}

LongSide == IF PanelWidth > PanelHeight THEN PanelWidth ELSE PanelHeight
\* pixel positions: one outside each edge of the screen, in either orientation
PixelCoords == -1..LongSide
\* rectangle corners: left of / above the screen, on it, at its first
\* off-screen column or row, and beyond it
TopLeftCoords == {-5, 0, PanelWidth, PanelHeight}
BottomRightCoords == {-5, PanelWidth - 1, PanelWidth + 5, PanelHeight + 5}
Styles == { [fill_color |-> Some(Red), stroke_color |-> NoColor, stroke_width |-> 0],
            [fill_color |-> NoColor, stroke_color |-> Some(Teal), stroke_width |-> 1],
            [fill_color |-> NoColor, stroke_color |-> NoColor, stroke_width |-> 0] }
\* draw_raw_iter takes any u16 window and any data
RawCoords == {1, 300}
RECURSIVE SeqsUpTo(_, _)
SeqsUpTo(S, n) ==
  IF n = 0 THEN {<<>>}
  ELSE LET shorter == SeqsUpTo(S, n - 1)
       IN shorter \cup {Append(q, v) : q \in shorter, v \in S}
RawData == SeqsUpTo({RawU16(Red), RawU16(Teal)}, MaxRawLen)
\* num_lines: nothing, one line, the whole height, more than twice the height,
\* and the largest u16
NumLines == {0, 1, PanelHeight, 2 * PanelHeight + 1, U16 - 1}

Init ==
  /\ pc = "start"
  /\ overflow_checks \in BOOLEAN
  /\ width = PanelWidth
  /\ height = PanelHeight
  /\ mode = DefaultMode
  /\ scroller = NoScroller
  /\ scrolls = 0
  /\ call = NoCall
  /\ log = <<>>
  /\ result = "None"

Dev == [width |-> width, height |-> height, mode |-> mode]

\* what an operation's outcome does to the program's position
After(res) == IF res = "Panic" THEN "panicked" ELSE "returned"
Res(ok) == IF ok THEN "Ok" ELSE "BusError"

\* ILI9486::new(interface, reset, delay, display_mode, size), display_mode in M
NewOf(M) ==
  /\ pc = "start"
  /\ \E m \in M, fuse \in 0..NewSends, pinfuse \in 0..2 :
       LET r == new(NewIo(fuse, pinfuse), m)
       IN /\ call' = [op |-> "new", mode |-> m, fuse |-> fuse, pinfuse |-> pinfuse]
          /\ log' = r.io.log
          /\ result' = r.res
          /\ width' = r.dev.width
          /\ height' = r.dev.height
          /\ mode' = r.dev.mode
          /\ pc' = IF r.res = "Ok" THEN "returned"
                   ELSE IF r.res = "Panic" THEN "panicked" ELSE "failed"
  /\ UNCHANGED <<overflow_checks, scroller, scrolls>>

New == NewOf(DisplayModes)
NewPlain == NewOf(PlainModes)

\* ILI9486::set_display_mode(mode), mode in M
SetDisplayModeOf(M) ==
  /\ pc = "idle"
  /\ \E m \in M, fuse \in 0..2 :
       LET r == set_display_mode(Dev, NewIo(fuse, 0), m)
       IN /\ call' = [op |-> "set_display_mode", mode |-> m, fuse |-> fuse]
          /\ log' = r.io.log
          /\ result' = r.res
          /\ width' = r.dev.width
          /\ height' = r.dev.height
          /\ mode' = r.dev.mode
          /\ pc' = After(r.res)
  /\ UNCHANGED <<overflow_checks, scroller, scrolls>>

SetDisplayMode == SetDisplayModeOf(DisplayModes)
SetOrientation == SetDisplayModeOf(PlainModes)

\* ILI9486::configure_vertical_scroll(fixed_top_lines, fixed_bottom_lines)
ConfigureVerticalScroll ==
  /\ pc = "idle"
  /\ \E ft \in 0..MaxFixed, fb \in 0..MaxFixed, fuse \in 0..2 :
       LET r == configure_vertical_scroll(Dev, NewIo(fuse, 0), ft, fb, overflow_checks)
       IN /\ call' = [op |-> "configure_vertical_scroll", fixed_top_lines |-> ft,
                      fixed_bottom_lines |-> fb, fuse |-> fuse]
          /\ log' = r.io.log
          /\ result' = r.res
          /\ scroller' = IF r.res = "Ok" THEN r.scroller ELSE scroller
          /\ scrolls' = IF r.res = "Ok" THEN 0 ELSE scrolls
          /\ pc' = After(r.res)
  /\ UNCHANGED <<overflow_checks, width, height, mode>>

\* ILI9486::scroll_vertically(scroller, num_lines)
ScrollVertically ==
  /\ pc = "idle"
  /\ scroller.present
  /\ scrolls < MaxScrolls
  /\ \E n \in NumLines, fuse \in 0..2 :
       LET r == scroll_vertically(scroller, NewIo(fuse, 0), n, overflow_checks)
       IN /\ call' = [op |-> "scroll_vertically", num_lines |-> n, fuse |-> fuse]
          /\ log' = r.io.log
          /\ result' = r.res
          /\ scroller' = r.sc
          /\ scrolls' = scrolls + 1
          /\ pc' = After(r.res)
  /\ UNCHANGED <<overflow_checks, width, height, mode>>

\* DrawTarget::draw_pixel(Pixel(pos, color))
DrawPixel ==
  /\ pc = "idle"
  /\ \E x \in PixelCoords, y \in PixelCoords, c \in Colors, fuse \in 0..DrawSends :
       LET r == draw_pixel(Dev, NewIo(fuse, 0), [x |-> x, y |-> y], c)
       IN /\ call' = [op |-> "draw_pixel", x |-> x, y |-> y, color |-> c, fuse |-> fuse]
          /\ log' = r.io.log
          /\ result' = Res(r.ok)
  /\ pc' = "returned"
  /\ UNCHANGED <<overflow_checks, width, height, mode, scroller, scrolls>>

\* DrawTarget::draw_rectangle(item)
DrawRectangle ==
  /\ pc = "idle"
  /\ \E x0 \in TopLeftCoords, y0 \in TopLeftCoords,
        x1 \in BottomRightCoords, y1 \in BottomRightCoords,
        st \in Styles, fuse \in 0..DrawSends :
       LET r == draw_rectangle(Dev, NewIo(fuse, 0), [x |-> x0, y |-> y0],
                               [x |-> x1, y |-> y1], st)
       IN /\ call' = [op |-> "draw_rectangle", x0 |-> x0, y0 |-> y0, x1 |-> x1,
                      y1 |-> y1, style |-> st, fuse |-> fuse]
          /\ log' = r.io.log
          /\ result' = Res(r.ok)
  /\ pc' = "returned"
  /\ UNCHANGED <<overflow_checks, width, height, mode, scroller, scrolls>>

\* DrawTarget::clear(color)
Clear ==
  /\ pc = "idle"
  /\ \E c \in Colors, fuse \in 0..DrawSends :
       LET r == clear(Dev, NewIo(fuse, 0), c)
       IN /\ call' = [op |-> "clear", color |-> c, fuse |-> fuse]
          /\ log' = r.io.log
          /\ result' = Res(r.ok)
  /\ pc' = "returned"
  /\ UNCHANGED <<overflow_checks, width, height, mode, scroller, scrolls>>

\* ILI9486::draw_raw_iter(x0, y0, x1, y1, data)
DrawRawIter ==
  /\ pc = "idle"
  /\ \E x0 \in RawCoords, y0 \in RawCoords, x1 \in RawCoords, y1 \in RawCoords,
        data \in RawData, fuse \in 0..DrawSends :
       LET r == draw_raw_iter(NewIo(fuse, 0), x0, y0, x1, y1, data)
       IN /\ call' = [op |-> "draw_raw_iter", x0 |-> x0, y0 |-> y0, x1 |-> x1,
                      y1 |-> y1, data |-> data, fuse |-> fuse]
          /\ log' = r.io.log
          /\ result' = Res(r.ok)
  /\ pc' = "returned"
  /\ UNCHANGED <<overflow_checks, width, height, mode, scroller, scrolls>>

\* The caller takes the result; its next call starts a new record.
Return ==
  /\ pc = "returned"
  /\ pc' = "idle"
  /\ call' = NoCall
  /\ log' = <<>>
  /\ result' = "None"
  /\ UNCHANGED <<overflow_checks, width, height, mode, scroller, scrolls>>

\* Every operation with every input.  Its state space is the product of the
\* three below, which are the ones checked.
Next ==
  \/ New
  \/ SetDisplayMode
  \/ ConfigureVerticalScroll
  \/ ScrollVertically
  \/ DrawPixel
  \/ DrawRectangle
  \/ Clear
  \/ DrawRawIter
  \/ Return

Spec == Init /\ [][Next]_vars

\* Construction and mode changes, with every DisplayMode.
NextMode ==
  \/ New
  \/ SetDisplayMode
  \/ Return

SpecMode == Init /\ [][NextMode]_vars

\* Construction, orientation changes and drawing.  The drawing operations
\* read width and height and no other field, and no Scroller.
NextDraw ==
  \/ NewPlain
  \/ SetOrientation
  \/ DrawPixel
  \/ DrawRectangle
  \/ Clear
  \/ DrawRawIter
  \/ Return

SpecDraw == Init /\ [][NextDraw]_vars

\* Construction, orientation changes and scrolling.  The scroll operations
\* read the orientation and no other part of the mode.
NextScroll ==
  \/ NewPlain
  \/ SetOrientation
  \/ ConfigureVerticalScroll
  \/ ScrollVertically
  \/ Return

SpecScroll == Init /\ [][NextScroll]_vars

\* ========================================================== the claims
\* what the claims read off the log
TransportCalls == SelectSeq(log, LAMBDA e : e.kind \in {"cmd", "data"})
OpcodeSent(b) == Entry("cmd", "U8", <<b>>)
ArgsSent(bytes) == Entry("data", "U8", bytes)
PixelsSent(vals) == Entry("data", "U16BE", vals)
Hi(v) == v \div 256
Lo(v) == v % 256
\* the calls of one window-set, one memory-write and one pixel stream
WindowWrite(x0, y0, x1, y1, vals) ==
  << OpcodeSent(42), ArgsSent(<<Hi(x0), Lo(x0), Hi(x1), Lo(x1)>>),
     OpcodeSent(43), ArgsSent(<<Hi(y0), Lo(y0), Hi(y1), Lo(y1)>>),
     OpcodeSent(44), ArgsSent(<<>>), PixelsSent(vals) >>
\* the 16-bit RGB565 value of a colour
Rgb565Value(c) == c.r * 2048 + c.g * 32 + c.b
Copies(n, v) == [i \in 1..n |-> v]

\* C1: when a transport call fails during ILI9486::new, new returns the
\* transport's error as an Err value, and the failing call is the last call
\* made on the transport.
C1_TransportFailureReturnsError ==
  (call.op = "new" /\ call.pinfuse = 0 /\ call.fuse > 0)
    => (result = "BusError" /\ Len(TransportCalls) = call.fuse)

\* C2: a Scroller made with fixed_top_lines + fixed_bottom_lines <= height
\* keeps fixed_top_lines <= top_offset <= height - fixed_bottom_lines through
\* every scroll_vertically call.
C2_OffsetStaysInBand ==
  (pc # "panicked" /\ scroller.present
     /\ scroller.fixed_top_lines + scroller.fixed_bottom_lines <= scroller.height)
    => /\ scroller.fixed_top_lines <= scroller.top_offset
       /\ scroller.top_offset <= scroller.height - scroller.fixed_bottom_lines

\* width and height are the panel's in Portrait, and exchanged in Landscape
Geometry ==
  /\ mode.orientation = "Portrait" => (width = PanelWidth /\ height = PanelHeight)
  /\ mode.orientation = "Landscape" => (width = PanelHeight /\ height = PanelWidth)

\* C3: width and height are the panel's in Portrait and the panel's exchanged
\* in Landscape, at all times; and a call of new or set_display_mode exchanges
\* them when it changes the stored orientation and leaves them alone when it
\* does not.
C3_SwapOncePerChange ==
  /\ [] Geometry
  /\ [][ call'.op \in {"new", "set_display_mode"} =>
           IF mode'.orientation # mode.orientation
           THEN width' = height /\ height' = width
           ELSE width' = width /\ height' = height ]_vars
\* set_display_mode has turned the device to Landscape
C3_Witness ==
  /\ call.op = "set_display_mode"
  /\ mode.orientation = "Landscape"
  /\ width = PanelHeight /\ height = PanelWidth
  /\ PanelWidth # PanelHeight

\* C4: the byte set_display_mode sends with memory-access-control has bit 5 set
\* iff the mode is Landscape, bit 3 iff inverted_rgb, bits 6 and 7 both for
\* Rotate180, bit 6 alone for FlipHorizontal in Portrait and FlipVertical in
\* Landscape, bit 7 alone for FlipHorizontal in Landscape and FlipVertical in
\* Portrait, neither for no flip; the other bits are clear, so the tuple
\* determines the byte.
C4_ModeByteBits ==
  (call.op = "set_display_mode" /\ Len(log) = 2) =>
    LET b == log[2].vals[1]
        m == call.mode
        portrait == m.orientation = "Portrait"
    IN /\ log[2].kind = "data" /\ Len(log[2].vals) = 1
       /\ Bit(b, 5) <=> m.orientation = "Landscape"
       /\ Bit(b, 3) <=> m.inverted_rgb
       /\ m.flip = "Rotate180" => (Bit(b, 6) /\ Bit(b, 7))
       /\ m.flip = "FlipHorizontal" =>
            IF portrait THEN Bit(b, 6) /\ ~Bit(b, 7) ELSE Bit(b, 7) /\ ~Bit(b, 6)
       /\ m.flip = "FlipVertical" =>
            IF portrait THEN Bit(b, 7) /\ ~Bit(b, 6) ELSE Bit(b, 6) /\ ~Bit(b, 7)
       /\ m.flip = "No" => (~Bit(b, 6) /\ ~Bit(b, 7))
       /\ ~Bit(b, 0) /\ ~Bit(b, 1) /\ ~Bit(b, 2) /\ ~Bit(b, 4)
       /\ b \in 0..255
\* a vertical flip in Landscape, BGR order, has been sent: 0x68
C4_Witness ==
  /\ call.op = "set_display_mode"
  /\ call.mode = [orientation |-> "Landscape", flip |-> "FlipVertical", inverted_rgb |-> TRUE]
  /\ result = "Ok"
  /\ log[2].vals = <<104>>

\* C5: draw_pixel at a point outside [0,width) x [0,height) makes no call on
\* the transport and returns Ok.
C5_OutsidePixelNoCalls ==
  (call.op = "draw_pixel"
     /\ (call.x < 0 \/ call.x >= width \/ call.y < 0 \/ call.y >= height))
    => (log = <<>> /\ result = "Ok")
\* a pixel in the first column right of the Landscape screen, with a transport
\* that would have failed
C5_Witness ==
  /\ call.op = "draw_pixel"
  /\ mode.orientation = "Landscape"
  /\ call.x = width /\ call.y = 0
  /\ call.fuse = 1
  /\ result = "Ok"

\* C6: draw_pixel at a point (x,y) of the screen makes, in order, the
\* column-address-set for x..x, the page-address-set for y..y, the
\* memory-write and one pixel stream holding the colour alone, and nothing
\* else; with a transport that does not fail it returns Ok.
C6_InsidePixelCalls ==
  (call.op = "draw_pixel"
     /\ call.x >= 0 /\ call.x < width /\ call.y >= 0 /\ call.y < height)
    => LET all == WindowWrite(call.x, call.y, call.x, call.y, <<Rgb565Value(call.color)>>)
       IN /\ call.fuse = 0 => result = "Ok"
          /\ result = "Ok" => log = all
          /\ result # "Ok" => log = SubSeq(all, 1, call.fuse)
\* the bottom-right pixel of the Landscape screen has been drawn
C6_Witness ==
  /\ call.op = "draw_pixel"
  /\ mode.orientation = "Landscape"
  /\ call.x = width - 1 /\ call.y = height - 1
  /\ result = "Ok"
  /\ Len(log) = 7

\* C7: draw_rectangle, when it draws, sets the window whose corners are the
\* rectangle's, each coordinate clamped into [0,width-1] or [0,height-1]; a
\* filled rectangle from (-5,-5) to (width+5,height+5) sets the window
\* (0,0)-(width-1,height-1) and streams width*height colours.
ClampTo(v, max) == IF v < 0 THEN 0 ELSE IF v > max THEN max ELSE v
C7_RectangleClamped ==
  (call.op = "draw_rectangle" /\ call.x0 < width /\ call.y0 < height /\ result = "Ok")
    => /\ Len(log) = 7
       /\ SubSeq(log, 1, 6) =
            SubSeq(WindowWrite(ClampTo(call.x0, width - 1), ClampTo(call.y0, height - 1),
                               ClampTo(call.x1, width - 1), ClampTo(call.y1, height - 1),
                               <<>>), 1, 6)
       /\ (call.x0 = -5 /\ call.y0 = -5 /\ call.x1 = width + 5 /\ call.y1 = height + 5
             /\ call.style.fill_color.some)
            => log = WindowWrite(0, 0, width - 1, height - 1,
                                 Copies(width * height, Rgb565Value(call.style.fill_color.c)))
\* the filled rectangle from (-5,-5) to (width+5,height+5) has been drawn
C7_Witness ==
  /\ call.op = "draw_rectangle"
  /\ call.x0 = -5 /\ call.y0 = -5 /\ call.x1 = width + 5 /\ call.y1 = height + 5
  /\ call.style.fill_color.some
  /\ result = "Ok"
  /\ Len(log[7].vals) = width * height

\* C8: draw_rectangle on a rectangle whose top-left has x0 >= width or
\* y0 >= height returns Ok and makes no call on the transport.
C8_RectangleEarlyOut ==
  (call.op = "draw_rectangle" /\ (call.x0 >= width \/ call.y0 >= height))
    => (result = "Ok" /\ log = <<>>)
\* a filled rectangle with its top-left at (width, 0), with a transport that
\* would have failed
C8_Witness ==
  /\ call.op = "draw_rectangle"
  /\ call.x0 = width /\ call.y0 = 0
  /\ call.style.fill_color.some
  /\ call.fuse = 1
  /\ result = "Ok"

\* C9: clear(color), with a transport that does not fail, makes exactly the
\* window-set for (0,0)-(width-1,height-1), the memory-write and one pixel
\* stream of width*height copies of the colour's 16-bit value, and returns Ok.
C9_ClearFillsScreen ==
  (call.op = "clear" /\ call.fuse = 0)
    => /\ result = "Ok"
       /\ log = WindowWrite(0, 0, width - 1, height - 1,
                            Copies(width * height, Rgb565Value(call.color)))
\* the Landscape screen has been cleared
C9_Witness ==
  /\ call.op = "clear"
  /\ mode.orientation = "Landscape"
  /\ result = "Ok"
  /\ Len(log) = 7
  /\ Len(log[7].vals) = PanelWidth * PanelHeight

\* C10: scroll_vertically(n) leaves top_offset at top_offset + n, or, when that
\* exceeds height - fixed_bottom_lines, at
\* fixed_top_lines + (top_offset + n + fixed_bottom_lines - height); and with a
\* transport that does not fail it makes exactly the vertical-scroll-address
\* command with the new offset's high and low byte.
C10_ScrollAdvance ==
  [][ call'.op = "scroll_vertically" =>
        LET t == scroller.top_offset + call'.num_lines
            new_offset == IF t > scroller.height - scroller.fixed_bottom_lines
                          THEN scroller.fixed_top_lines
                                 + (t + scroller.fixed_bottom_lines - scroller.height)
                          ELSE t
        IN /\ scroller'.top_offset = new_offset
           /\ call'.fuse = 0 =>
                log' = <<OpcodeSent(55), ArgsSent(<<Hi(new_offset), Lo(new_offset)>>)>> ]_vars

\* The byte the controller documentation assigns to a mode: 32 for the
\* row/column exchange of Landscape, 8 for the BGR pixel order, and 64 / 128
\* for the column / row order, which a flip sets on the axis the orientation
\* puts it on.
Encoding(m) ==
  LET land == m.orientation = "Landscape"
      v == m.flip \in {"FlipVertical", "Rotate180"}
      h == m.flip \in {"FlipHorizontal", "Rotate180"}
  IN (IF land THEN 32 ELSE 0) + (IF m.inverted_rgb THEN 8 ELSE 0)
     + (IF (land /\ v) \/ (~land /\ h) THEN 64 ELSE 0)
     + (IF (land /\ h) \/ (~land /\ v) THEN 128 ELSE 0)

\* the calls on the reset line and the command bytes of a log, in order
ResetsAndOpcodes ==
  LET kept == SelectSeq(log, LAMBDA e : e.kind \in {"reset", "cmd"})
  IN [i \in 1..Len(kept) |->
        IF kept[i].kind = "reset" THEN kept[i].fmt ELSE kept[i].vals[1]]

\* the argument bytes that follow the k-th transport command of the log
ArgsOf(k) == TransportCalls[2 * k].vals

\* C11: a successful new drives the reset line low then high, once and ahead
\* of every transport call, and then sends, once each and in this order:
\* interface mode control, sleep out, pixel format set with 0x55, inversion
\* off, power control 1 to 4, memory access control with the encoding of the
\* requested mode, digital gamma control 1 and 2, display function control,
\* sleep out again, display on, idle mode off, normal display mode.
C11_InitSequence ==
  (call.op = "new" /\ result = "Ok") =>
    /\ ResetsAndOpcodes = << "low", "high", 176, 17, 58, 32, 192, 193, 194, 195,
                             54, 226, 227, 182, 17, 41, 56, 19 >>
    /\ ArgsOf(3) = <<85>>
    /\ ArgsOf(9) = <<Encoding(call.mode)>>
    /\ mode = call.mode

\* a successful new that was asked for a Landscape mode rotated by 180 degrees
C11_Witness ==
  /\ call.op = "new" /\ result = "Ok"
  /\ call.mode.orientation = "Landscape" /\ call.mode.flip = "Rotate180"
  /\ Len(TransportCalls) = 32

\* C12: when the reset line cannot be driven low or high, new returns the
\* reset error, which is not the transport's error, and the transport has
\* not been called at all.
C12_ResetFailure ==
  (call.op = "new" /\ call.pinfuse \in 1..2) =>
    /\ result = "RSError"
    /\ result # "BusError"
    /\ TransportCalls = <<>>
    /\ Len(log) = 2 * call.pinfuse - 1

\* a new whose reset line went low but could not be driven high again
C12_Witness ==
  /\ call.op = "new" /\ call.pinfuse = 2
  /\ result = "RSError"
  /\ log[Len(log)] = Entry("reset", "high", <<>>)

\* the 16-bit field that starts at byte i of the arguments of the vertical
\* scroll define command in the log
ScrollField(i) == log[2].vals[i] * 256 + log[2].vals[i + 1]

\* a configure_vertical_scroll that returned a tracker
Configured == call.op = "configure_vertical_scroll" /\ result = "Ok"

\* C13 as stated: the band length of the vertical scroll define command and
\* the height of the returned tracker come from the height that height()
\* returns, in Portrait and in Landscape.
C13_ScrollUsesLogicalHeight ==
  Configured =>
    /\ scroller.height = height
    /\ ScrollField(3) = (height - call.fixed_top_lines - call.fixed_bottom_lines) % U16

\* C13, amended: the band length and the height of the returned tracker come
\* from the stored height in Portrait and from the stored width in Landscape,
\* which is the panel's HEIGHT in both orientations (and in Landscape is not
\* what height() returns).
C13_ScrollUsesPanelHeight ==
  Configured =>
    LET h == IF mode.orientation = "Landscape" THEN width ELSE height
    IN /\ h = PanelHeight
       /\ scroller.height = h
       /\ ScrollField(3) = (h - call.fixed_top_lines - call.fixed_bottom_lines) % U16

\* a tracker configured in Landscape, where height() is the panel's short side
C13_Witness ==
  /\ Configured
  /\ mode.orientation = "Landscape"
  /\ height # scroller.height
  /\ call.fixed_top_lines = 1 /\ call.fixed_bottom_lines = 1

\* C14: every set_display_mode, whatever the stored and the requested mode,
\* starts exactly one memory access control command, whose one argument byte
\* is the encoding of the requested mode, and the stored mode, width and
\* height are those of the requested mode by the time the command is
\* sent: they are so even when the send of the command byte fails.
C14_OneModeCommand ==
  call.op = "set_display_mode" =>
    /\ log = IF call.fuse = 1 THEN <<OpcodeSent(54)>>
             ELSE <<OpcodeSent(54), ArgsSent(<<Encoding(call.mode)>>)>>
    /\ mode = call.mode
    /\ Geometry

\* a set_display_mode to a Landscape mode whose command byte was not accepted
C14_Witness ==
  /\ call.op = "set_display_mode" /\ call.fuse = 1
  /\ result = "BusError"
  /\ call.mode.orientation = "Landscape" /\ call.mode.inverted_rgb
  /\ width = PanelHeight

\* C19: a set_display_mode whose command or argument send fails returns the
\* transport's error with the requested mode stored and width and height
\* matching its orientation; that state is what the caller continues from,
\* and a set_display_mode that requests the stored mode again leaves width
\* and height as they are.
C19_NoRollback ==
  [][ /\ (call'.op = "set_display_mode" /\ call'.fuse \in 1..2) =>
           /\ result' = "BusError"
           /\ mode' = call'.mode
           /\ Geometry'
      /\ (call.op = "set_display_mode" /\ result = "BusError" /\ pc' = "idle") =>
           /\ mode' = call.mode
           /\ width' = width /\ height' = height
      /\ (pc = "idle" /\ call'.op = "set_display_mode" /\ call'.mode = mode) =>
           /\ width' = width /\ height' = height
           /\ mode' = mode ]_vars

\* a failed set_display_mode that asked for Landscape on a device that was in
\* Portrait: the argument byte was refused, width and height are exchanged
C19_Witness ==
  /\ call.op = "set_display_mode" /\ call.fuse = 2
  /\ result = "BusError"
  /\ mode.orientation = "Landscape" /\ mode.flip = "FlipVertical"
  /\ width = PanelHeight /\ height = PanelWidth

\* the operations that draw
DrawOps == {"draw_raw_iter", "draw_pixel", "draw_rectangle", "clear"}

\* the transport calls of a drawing operation that nothing interrupts: the
\* kind of each call and the command byte of the three commands
DrawCallKinds == <<"cmd", "data", "cmd", "data", "cmd", "data", "data">>
DrawCallOpcode(i) == IF i = 1 THEN 42 ELSE IF i = 3 THEN 43 ELSE 44

\* C15: in every drawing operation the first transport call that fails is the
\* last call made, and the operation returns the transport's error: the log
\* ends at the failing call, it is an initial part of the uninterrupted
\* sequence (no call is repeated), and without a failure the operation
\* returns Ok.
C15_DrawFailureAborts ==
  call.op \in DrawOps =>
    /\ (call.fuse >= 1 /\ log # <<>>) => (result = "BusError" /\ Len(log) = call.fuse)
    /\ result = "BusError" => (call.fuse >= 1 /\ Len(log) = call.fuse)
    /\ (call.fuse = 0 /\ log # <<>>) => (result = "Ok" /\ Len(log) = Len(DrawCallKinds))
    /\ Len(log) <= Len(DrawCallKinds)
    /\ \A i \in 1..Len(log) :
         /\ log[i].kind = DrawCallKinds[i]
         /\ log[i].kind = "cmd" => log[i].vals = <<DrawCallOpcode(i)>>

\* a draw_rectangle whose page address set command byte was refused, after
\* the column address set went through
C15_Witness ==
  /\ call.op = "draw_rectangle" /\ call.fuse = 3
  /\ result = "BusError"
  /\ Len(log) = 3 /\ log[3] = OpcodeSent(43)

\* C16: draw_raw_iter on a working transport sends column address set with
\* x0 and x1, page address set with y0 and y1 (high byte first), memory write
\* without arguments, and then the caller's values as given: the coordinates
\* go out as passed, whatever width and height are, and however many values
\* there are for the window.
C16_RawWindowAndData ==
  (call.op = "draw_raw_iter" /\ call.fuse = 0) =>
    /\ result = "Ok"
    /\ log = << OpcodeSent(42),
                ArgsSent(<<call.x0 \div 256, call.x0 % 256, call.x1 \div 256, call.x1 % 256>>),
                OpcodeSent(43),
                ArgsSent(<<call.y0 \div 256, call.y0 % 256, call.y1 \div 256, call.y1 % 256>>),
                OpcodeSent(44),
                ArgsSent(<<>>),
                Entry("data", "U16BE", call.data) >>

\* a draw_raw_iter beyond the screen, with x0 > x1, and with two values for a
\* window that is not two pixels
C16_Witness ==
  /\ call.op = "draw_raw_iter" /\ call.fuse = 0 /\ result = "Ok"
  /\ call.x0 = 300 /\ call.x1 = 1 /\ call.y0 = 300 /\ call.y1 = 300
  /\ call.x0 > width /\ call.y0 > height
  /\ Len(call.data) = 2
  /\ log[2] = ArgsSent(<<1, 44, 0, 1>>)

\* the window of the log: the coordinates that the bytes of the column
\* address set and of the page address set encode
WinX0 == log[2].vals[1] * 256 + log[2].vals[2]
WinX1 == log[2].vals[3] * 256 + log[2].vals[4]
WinY0 == log[4].vals[1] * 256 + log[4].vals[2]
WinY1 == log[4].vals[3] * 256 + log[4].vals[4]
WinPixels == (WinX1 - WinX0 + 1) * (WinY1 - WinY0 + 1)

\* a filled rectangle, top-left <= bottom-right, past the early-out, drawn on
\* a working transport
FilledRectangleDrawn ==
  /\ call.op = "draw_rectangle" /\ call.fuse = 0
  /\ call.style.fill_color.some
  /\ call.x0 <= call.x1 /\ call.y0 <= call.y1
  /\ call.x0 < width /\ call.y0 < height

\* C17 as stated: such a rectangle streams as many colours as the clamped
\* window has pixels, wherever the rectangle lies.
C17_StreamFillsWindow ==
  FilledRectangleDrawn => Len(log[7].vals) = WinPixels

\* C17, amended: such a rectangle streams as many colours as the clamped
\* window has pixels when its bottom-right corner has no negative coordinate;
\* when it has one (the rectangle lies left of or above the screen) a window
\* of at least one pixel is still set, and no colour is streamed.
C17_StreamFillsWindowOnScreen ==
  FilledRectangleDrawn =>
    /\ Len(log) = 7
    /\ WinPixels >= 1
    /\ Len(log[7].vals) = IF call.x1 < 0 \/ call.y1 < 0 THEN 0 ELSE WinPixels

\* a filled rectangle left of the screen: the window is the screen's first
\* column over the rectangle's rows, and nothing is streamed
C17_Witness ==
  /\ FilledRectangleDrawn /\ result = "Ok"
  /\ call.x1 < 0 /\ call.y0 = 0 /\ call.y1 >= 0
  /\ WinX0 = 0 /\ WinX1 = 0 /\ WinPixels >= 2
  /\ log[7].vals = <<>>

\* an operation of the drawing-surface adapter; a rectangle counts when its
\* top-left is <= its bottom-right
AdapterOp ==
  \/ call.op \in {"draw_pixel", "clear"}
  \/ call.op = "draw_rectangle" /\ call.x0 <= call.x1 /\ call.y0 <= call.y1

\* C18: every window that draw_pixel, clear and draw_rectangle (top-left <=
\* bottom-right) send lies on the screen and is not inverted, in either
\* orientation: 0 <= x0 <= x1 <= width - 1 and 0 <= y0 <= y1 <= height - 1.
C18_WindowOnScreen ==
  AdapterOp =>
    /\ Len(log) >= 2 => (0 <= WinX0 /\ WinX0 <= WinX1 /\ WinX1 <= width - 1)
    /\ Len(log) >= 4 => (0 <= WinY0 /\ WinY0 <= WinY1 /\ WinY1 <= height - 1)

\* a rectangle larger than the screen on every side, drawn in Landscape: its
\* window is the whole screen
C18_Witness ==
  /\ call.op = "draw_rectangle" /\ mode.orientation = "Landscape"
  /\ call.x0 < 0 /\ call.y0 < 0 /\ call.x1 > width /\ call.y1 > height
  /\ Len(log) = 7
  /\ WinX0 = 0 /\ WinX1 = width - 1 /\ WinY0 = 0 /\ WinY1 = height - 1

\* C20: the three 16-bit fields of the vertical scroll define command that
\* configure_vertical_scroll sends (fixed top, band length, fixed bottom) add
\* up to the height of the returned tracker for every fixed_top_lines and
\* fixed_bottom_lines, those with a sum above the height included, the band
\* length being computed without underflow; and the tracker starts with
\* top_offset = fixed_top_lines.
C20_FieldsSumToHeight ==
  (call.op = "configure_vertical_scroll" /\ call.fuse = 0) =>
    /\ result = "Ok"
    /\ ScrollField(1) + ScrollField(3) + ScrollField(5) = scroller.height
    /\ scroller.top_offset = call.fixed_top_lines
====
